---- MODULE Spec2Model ----
(***************************************************************************)
(* A model of the event bus of 0xheron/event: the MultiEventManager of     *)
(* src/unnamed/part_000 (the variant with the global sequence number and   *)
(* the multithreaded radix sort), its EventProcessors, the SharedBatch     *)
(* (std::shared_ptr<DeletePointerView<Event>[]>) and the handler table.    *)
(*                                                                         *)
(* An Event pointer is the record [addr, id]: addr names the heap object   *)
(* (the model names it by the value event_count had at its stamping), id   *)
(* is what get_id() returns.  A HandlerEntry (an IEventHandler) is an index *)
(* into the sequence entries; a SharedBatch is an index into batches.      *)
(***************************************************************************)
EXTENDS Integers, Sequences, FiniteSets, TLC

(* ------------------------------ bounds -------------------------------- *)
\* Spec: the pipeline under concurrent producers
NumThreads == 2
MaxProcessors == 2
MaxEvents == 2
MaxBatches == 2
MaxEntries == 1
\* SpecTable: the handler table under subscribe and unsubscribe
TableThreads == 1
TableProcessors == 2
TableEvents == 1
TableBatches == 1
TableEntries == 2
MaxHandlers == 1
TableHandlers == 2
\* SpecCycle: one producer, cycles of move_to_processors and process_events
CycleProcessors == 1
CycleEvents == 3
CycleBatches == 3
CycleEntries == 1
CycleHandlers == 1
\* SpecLock: the locked calls taken apart
LockThreads == 2
LockProcessors == 2
LockEvents == 1
LockBatches == 1
LockEntries == 1
LockHandlers == 1
\* SpecFifo: add_events and process_events taken apart
FifoProcessors == 1
FifoEvents == 2
FifoBatches == 2
\* SpecSort: the longest input of a call of multithreaded_radix
SortLen == 4
\* SpecTypes: the most EVENT_GEN lines of a translation unit
MaxTypes == 3
\* a delete counter stops counting here
MaxDeletes == 2

\* the lock-free single-bus draft: events the producer thread submits, handler
\* entries subscribed, calls of process_events
BusEvents == 3
BusHandlers == 2
BusCalls == 3

\* the keyed draft: handler groups, events, handler entries, calls of process_events
KeyedGroups == 2
KeyedEvents == 2
KeyedHandlers == 2
KeyedCalls == 3

\* SpecCount: the longest input of event.h's count_sort
CountLen == 257

(* ------------------------- program constants -------------------------- *)
max_event_types == 2
base == 4
N == 32
WordBits == 64
\* the width of char
CharBits == 8

MaxOf(a, b) == IF a < b THEN b ELSE a

Threads == 1..MaxOf(MaxOf(NumThreads, TableThreads), LockThreads)

HandlerObjs == 1..MaxOf(MaxOf(MaxOf(MaxHandlers, TableHandlers), CycleHandlers), LockHandlers)
EventIds == 0..(max_event_types - 1)
NoPair == [first |-> [addr |-> -1, id |-> 0], second |-> 0]
NoSubmit == [pair |-> NoPair, processor_id |-> 0, moved |-> FALSE]

VARIABLES
    event_count,     \* std::atomic<size_t> event_count
    subtracted,      \* size_t subtracted
    processors,      \* std::vector<EventProcessor>
    event_queue,     \* the intake queue: one FIFO of pairs per producer token
    inflight,        \* per thread: the pair a submit has stamped and not yet enqueued
    mv,              \* the coordinator inside move_to_processors: its local event_count, or -1
    batches,         \* every SharedBatch created so far: its events and its use count
    deleted,         \* per event address: how many times delete ran on it
    entries,         \* every EventHandler<T,E> allocated so far
    entry_deleted,   \* per entry: how many times delete ran on it
    delivered,       \* per processor: the batches add_events handed to it, in order
    log,             \* per processor: one record per event its process_events dispatched
    alive,           \* FALSE once the manager has been destroyed
    crashed,         \* TRUE once undefined behaviour has aborted the process
    returned,        \* what the last get_processor returned, -1 before the first
    lock,            \* std::shared_mutex processor_and_sub: its owners
    pc,              \* per thread: the locked call it is inside of, and how far
    fifo,            \* a move_to_processors and a process_events in progress, step by step
    sorter,          \* a call of multithreaded_radix on its own: input and output
    registry,        \* the translation unit's EVENT_GEN / MAX_EVENT_INIT lines
    bus,             \* the lock-free single-bus EventManager draft and its two threads
    keyed            \* the keyed MultiEventManager<H> draft

\* what the manager's operations never touch
side == <<fifo, sorter, registry, bus, keyed>>

lockvars == <<lock, pc>>

vars == <<event_count, subtracted, processors, event_queue, inflight, mv, batches,
          deleted, entries, entry_deleted, delivered, log, alive, crashed, returned,
          lock, pc, fifo, sorter, registry, bus, keyed>>

(* ------------------------------ helpers ------------------------------- *)
Last(s) == s[Len(s)]

Range(s) == {s[i] : i \in 1..Len(s)}

RECURSIVE Flatten(_)
Flatten(ss) == IF ss = <<>> THEN <<>> ELSE Head(ss) \o Flatten(Tail(ss))

RECURSIVE Pow(_, _)
Pow(b, e) == IF e = 0 THEN 1 ELSE b * Pow(b, e - 1)

Min(a, b) == IF a < b THEN a ELSE b

(* ---------------- the sort of part_000 (base N radix) ----------------- *)
\* max_val: the largest sequence number of the input, 0 for the empty input
RECURSIVE max_val(_)
max_val(input) ==
    IF input = <<>> THEN 0
    ELSE LET m == max_val(Tail(input))
         IN  IF m < Head(input).second THEN Head(input).second ELSE m

\* bit_scan_rv: bsrq, the index of the most significant one bit (x # 0)
RECURSIVE bit_scan_rv(_)
bit_scan_rv(x) == IF x <= 1 THEN 0 ELSE 1 + bit_scan_rv(x \div 2)

\* compile_pow: rval starts at base and is multiplied by base exp times
RECURSIVE compile_pow_loop(_, _, _)
compile_pow_loop(rval, b, i) ==
    IF i = 0 THEN rval ELSE compile_pow_loop(rval * b, b, i - 1)

compile_pow(b, exp) == compile_pow_loop(b, b, exp)

digit(pair, exp) == (pair.second \div exp) % N

\* the first loop of count_sort: count[d] = how many inputs have digit d
count_digits(input, exp) ==
    [d \in 0..(N - 1) |-> Cardinality({i \in 1..Len(input) : digit(input[i], exp) = d})]

\* the second loop of count_sort: count[i] += count[i - 1] for i = 1..N-1
count_prefix(count) ==
    LET ps[d \in 0..(N - 1)] == IF d = 0 THEN count[0] ELSE ps[d - 1] + count[d]
    IN  ps

\* a wrong third loop: it fills output from the far end, largest digit first
RECURSIVE count_place_descending(_, _, _, _, _)
count_place_descending(input, i, count, output, exp) ==
    IF i = 0 THEN output
    ELSE LET d == digit(input[i], exp)
         IN  count_place_descending(input, i - 1, [count EXCEPT ![d] = @ - 1],
                                    [output EXCEPT ![Len(input) + 1 - count[d]] = input[i]],
                                    exp)

\* the third loop of count_sort, i = input.size() down to 1:
\* output[count[digit] - 1] = input[i - 1]; count[digit]--  (sequences count from 1)
RECURSIVE count_place(_, _, _, _, _)
count_place(input, i, count, output, exp) ==
    IF i = 0 THEN output
    ELSE LET d == digit(input[i], exp)
         IN  count_place(input, i - 1, [count EXCEPT ![d] = @ - 1],
                         [output EXCEPT ![count[d]] = input[i]], exp)

count_sort(input, output, iterations) ==
    LET exp == Pow(N, iterations)
    IN  count_place(input, Len(input), count_prefix(count_digits(input, exp)), output, exp)

\* the loop of radix: the two buffers swap roles on every pass
RECURSIVE radix_loop(_, _, _, _)
radix_loop(input, s_input, iterations, max_num) ==
    IF max_num \div Pow(N, iterations) = 0
    THEN IF iterations % 2 = 1 THEN s_input ELSE input
    ELSE IF iterations % 2 = 0
         THEN radix_loop(input, count_sort(input, s_input, iterations),
                         iterations + 1, max_num)
         ELSE radix_loop(count_sort(s_input, input, iterations), s_input,
                         iterations + 1, max_num)

\* radix<T, N>: sorts input in place; s_input starts as input.size() default pairs
radix(input) ==
    radix_loop(input, [i \in 1..Len(input) |-> NoPair], 0, max_val(input))

\* x >> count on a 64-bit word.  The model's numbers stay below 2^31, so a count
\* of 31 or more leaves 0.
ShiftRight(x, count) == IF count >= 31 THEN 0 ELSE x \div Pow(2, count)

\* bit_scan_rv(max_num) + 1 - base, computed in size_t: below 0 it wraps to
\* 2^64 - k, a shift count of 64 or more.  The x86-64 shift instruction the build
\* emits (the header is x86-64 only: bsrq) takes the count modulo 64.
shift_amount(max_num) == bit_scan_rv(max_num) + 1 - base

shift_count(max_num) == shift_amount(max_num) % WordBits

\* a wrong partition: the low bits of the number choose the bucket
bucket_index_low(second, max_num) == second % Pow(2, base)

bucket_index(second, max_num) == ShiftRight(second, shift_count(max_num))

firsts(pairs) == [i \in 1..Len(pairs) |-> pairs[i].first]

\* a wrong partition: the buckets are filled from the far end
bucket_reversed(input, k, max_num) ==
    SelectSeq(input,
              LAMBDA pr : bucket_index(pr.second, max_num) = compile_pow(2, base) - 1 - k)

\* the bucket k of multithreaded_radix after the partition loop
bucket(input, k, max_num) ==
    SelectSeq(input, LAMBDA pr : bucket_index(pr.second, max_num) = k)

\* std::array<std::vector<...>, compile_pow(2, base)> buckets after the partition
\* loop; the array does not exist on the path that returns early
buckets_of(input) ==
    IF max_val(input) = 0 THEN <<>>
    ELSE [k \in 0..(compile_pow(2, base) - 1) |-> bucket(input, k, max_val(input))]

\* a wrong early return: the workers are started for every input
threads_started_always(input) == compile_pow(2, base)

\* std::array<std::thread, compile_pow(2, base)> threads: every element is
\* started by the loop; none on the path that returns early
threads_started(input) == IF max_val(input) = 0 THEN 0 ELSE compile_pow(2, base)

\* the loop of thread.join() runs over the whole array before output is filled
threads_joined(started) == started

\* one thread per bucket runs radix on it; the buckets are read after the joins
multithreaded_radix(input) ==
    LET max_num == max_val(input)
    IN  IF max_num = 0 THEN firsts(input)
        ELSE Flatten([k \in 1..compile_pow(2, base) |->
                          firsts(radix(bucket(input, k - 1, max_num)))])

(* ------------- the sort of src/event.h (base 10 radix) ---------------- *)
digit10(pair, exp) == (pair.second \div exp) % 10

\* the least value of the build's plain char: -128 where char is signed (x86-64),
\* 0 where it is unsigned (ARM)
CHAR_MIN == sorter.CHAR_MIN

\* an int stored into a char: its value modulo 2^CharBits, in the char's range
to_char(value) ==
    LET m == value % Pow(2, CharBits)
    IN  IF CHAR_MIN < 0 /\ m >= Pow(2, CharBits - 1) THEN m - Pow(2, CharBits) ELSE m

\* the first loop of event.h's count_sort: count[d]++ once per input of digit d,
\* on char count[10]
count_digits10(input, exp) ==
    [d \in 0..9 |->
        to_char(Cardinality({i \in 1..Len(input) : digit10(input[i], exp) = d}))]

\* its second loop: count[i] += count[i - 1] for i = 1..9
count_prefix10(count) ==
    LET ps[d \in 0..9] == IF d = 0 THEN count[0] ELSE to_char(ps[d - 1] + count[d])
    IN  ps

\* the value of count[digit] when the third loop, which runs from the last
\* input to the first, reaches input[i]: the prefix sum of the digit, less one
\* count[digit]-- for every later input of the same digit
count_at(input, i, count, exp) ==
    LET d == digit10(input[i], exp)
    IN  to_char(count[d] - Cardinality({j \in (i + 1)..Len(input) :
                                          digit10(input[j], exp) = d}))

\* the indices count[digit] - 1 the third loop stores to, in the order it uses
\* them: i = input.size() - 1 down to 0 (sequences count from 1)
count_written(input, count, exp) ==
    [k \in 1..Len(input) |-> count_at(input, Len(input) - k + 1, count, exp) - 1]

\* the stores of the third loop, output[count[digit] - 1] = input[i]: each
\* place of output holds the last input stored there, or what it held before
count_place10(input, written, output) ==
    [p \in 1..Len(output) |->
        LET stores == {k \in 1..Len(written) : written[k] = p - 1}
        IN  IF stores = {} THEN output[p]
            ELSE input[Len(input) + 1 - CHOOSE k \in stores : \A j \in stores : j <= k]]

\* event.h's count_sort(input, output, exp): fills output, returns the largest
\* sequence number it saw
count_sort10(input, output, exp) ==
    [output |-> count_place10(
                    input,
                    count_written(input, count_prefix10(count_digits10(input, exp)), exp),
                    output),
     max_val |-> max_val(input)]

\* the do-while of event.h's radix: a pass from input to s_input when
\* iterations is even, from s_input to input when odd; after the loop it
\* returns iterations % 2 ? input : s_input
RECURSIVE radix10_loop(_, _, _)
radix10_loop(input, s_input, iterations) ==
    LET r == IF iterations % 2 = 0
             THEN count_sort10(input, s_input, Pow(10, iterations))
             ELSE count_sort10(s_input, input, Pow(10, iterations))
        input2 == IF iterations % 2 = 0 THEN input ELSE r.output
        s_input2 == IF iterations % 2 = 0 THEN r.output ELSE s_input
    IN  IF r.max_val \div Pow(10, iterations + 1) # 0
        THEN radix10_loop(input2, s_input2, iterations + 1)
        ELSE IF (iterations + 1) % 2 = 1 THEN input2 ELSE s_input2

\* event.h's radix(input): s_input starts as input.size() default pairs
radix10(input) == radix10_loop(input, [i \in 1..Len(input) |-> NoPair], 0)

(* --------------------------- the intake queue ------------------------- *)
Orders(n) == {o \in [1..n -> 1..n] : \A i, j \in 1..n : o[i] = o[j] => i = j}

\* try_dequeue_bulk(out, max): visits the producers' sub-queues in the order the
\* queue chooses and takes from the front of each until max pairs are taken
RECURSIVE try_dequeue_bulk(_, _, _, _)
try_dequeue_bulk(queue, max, order, got) ==
    IF order = <<>> \/ Len(got) = max THEN [got |-> got, queue |-> queue]
    ELSE LET tok == Head(order)
             n == Min(Len(queue[tok]), max - Len(got))
         IN  try_dequeue_bulk([queue EXCEPT ![tok] = SubSeq(@, n + 1, Len(@))], max,
                              Tail(order), got \o SubSeq(queue[tok], 1, n))

(* ----------------------------- SharedBatch ---------------------------- *)
\* ~DeletePointerView on every element of a batch: delete pointer
RECURSIVE delete_events(_, _)
delete_events(del, events) ==
    IF events = <<>> THEN del
    ELSE delete_events([del EXCEPT ![Head(events).addr + 1] = @ + 1], Tail(events))

\* a wrong deleter: the last owner goes away and the events stay allocated
release_without_delete(st, b) ==
    [st EXCEPT !.batches[b].use_count = @ - 1]

\* one shared_ptr to batch b goes away; the last one runs delete[] on the array
release(st, b) ==
    LET n == st.batches[b].use_count - 1
    IN  [st EXCEPT !.batches[b].use_count = n,
                   !.deleted = IF n = 0 THEN delete_events(@, st.batches[b].events) ELSE @]

\* a wrong create_delete_shared: the last pointer of input is left out
create_delete_shared_short(input) ==
    [events |-> SubSeq(input, 1, Len(input) - 1), use_count |-> 1]

\* create_delete_shared: the array of DeletePointerView filled from input, owned
\* by one shared_ptr (the local event_shared)
create_delete_shared(input) == [events |-> input, use_count |-> 1]

\* a wrong add_events: the FIFOs hold the array without owning it
shared_copies_uncounted(event_shared, n) == event_shared

\* events_queue.push(events) in add_events copies the shared_ptr: one more owner
\* for each of the n processors of the loop in move_to_processors
shared_copies(event_shared, n) == [event_shared EXCEPT !.use_count = @ + n]

\* a wrong add_events: the batch is pushed with the size of the one before it
add_events_stale_size(processor, b, num_events) ==
    [processor EXCEPT !.events_queue = Append(@, b),
                      !.events_size_queue =
                          Append(@, IF @ = <<>> THEN 0 ELSE Last(@))]

\* EventProcessor::add_events: push the batch and its size
add_events(processor, b, num_events) ==
    [processor EXCEPT !.events_queue = Append(@, b),
                      !.events_size_queue = Append(@, num_events)]

(* --------------------------- EventProcessor --------------------------- *)
\* EventProcessor(token): handlers(max_event_types), both queues empty
EventProcessor == [handlers |-> [t \in EventIds |-> <<>>],
                   events_queue |-> <<>>, events_size_queue |-> <<>>]

\* a wrong subscribe: the new entry goes to the front of the slot
emplace_front(slot, x) == <<x>> \o slot

\* handlers[E::id].emplace_back(new EventHandler<T, E>(...))
emplace_back(slot, x) == Append(slot, x)

\* std::erase_if(grouped_handlers, ...): drops the entries bound to handler
erase_if(grouped_handlers, handler) ==
    SelectSeq(grouped_handlers, LAMBDA x : entries[x].instance # handler)

\* the loop of unsubscribe runs erase_if on grouped_handlers, a copy of each slot
\* (for (auto grouped_handlers : handlers)); the processor's own table stays
unsubscribe_handlers(handlers, handler) ==
    LET copies == [t \in EventIds |-> erase_if(handlers[t], handler)]
    IN  handlers

\* the entries of a table in the order the loops visit them
table_entries(handlers) == Flatten([t \in 1..max_event_types |-> handlers[t - 1]])

\* the for loop over handlers[event->get_id()]: exec on every entry in order.
\* exec on an entry that delete has run on is undefined: it runs the stale
\* object's method (mode "stale") or aborts the process (mode "crash")
exec_handlers(slot, ed, mode) ==
    LET bad == {j \in 1..Len(slot) : ed[slot[j]] > 0}
        stop == IF bad = {} \/ mode = "stale" THEN Len(slot) + 1
                ELSE CHOOSE j \in bad : \A k \in bad : j <= k
    IN  [invoked |-> SubSeq(slot, 1, stop - 1),
         stale |-> {slot[j] : j \in {k \in bad : k < stop}},
         done |-> stop > Len(slot)]

\* a wrong lookup: every event is looked up in the first slot
slot_of_first(handlers, event) == handlers[0]

\* handlers[event->get_id()]: the slot an event's handlers are looked up in
slot_of(handlers, event) == handlers[event.id]

\* the inner loops of process_events over one batch: events[i], i < events_size
RECURSIVE dispatch_batch(_, _, _, _, _, _)
dispatch_batch(st, events, i, events_size, handlers, mode) ==
    IF i > events_size \/ st.crashed THEN st
    ELSE LET event == events[i]
             r == exec_handlers(slot_of(handlers, event), st.entry_deleted, mode)
             rec == [event |-> event, live |-> st.deleted[event.addr + 1] = 0,
                     invoked |-> r.invoked, stale |-> r.stale, done |-> r.done]
         IN  dispatch_batch([st EXCEPT !.log = Append(@, rec), !.crashed = ~r.done],
                            events, i + 1, events_size, handlers, mode)

\* the batch process_events dispatches: events_queue.back()
dispatched_batch(events_queue) == Last(events_queue)

\* the size process_events uses for it: events_size_queue.back()
dispatched_size(events_size_queue) == Last(events_size_queue)

\* events_queue.pop(): std::queue pops the front; its shared_ptr is released
popped_batch(events_queue) == Head(events_queue)

\* the outer loop of process_events, while events_queue is not empty
RECURSIVE process_loop(_, _, _)
process_loop(st, handlers, mode) ==
    IF st.events_queue = <<>> \/ st.crashed THEN st
    ELSE LET b == dispatched_batch(st.events_queue)
             events_size == dispatched_size(st.events_size_queue)
             d == dispatch_batch(st, st.batches[b].events, 1, events_size, handlers, mode)
             r == release(d, popped_batch(d.events_queue))
         IN  IF d.crashed THEN d
             ELSE process_loop([r EXCEPT !.events_queue = Tail(@),
                                         !.events_size_queue = Tail(@)], handlers, mode)

(* ------------------------------ the state ----------------------------- *)
NoCall == [op |-> "none", processor_id |-> 0, handler |-> 0, E |-> 0, done |-> FALSE]
NoSort == [input |-> <<>>, output |-> <<>>, called |-> FALSE, buckets |-> <<>>,
           threads |-> 0, joined |-> 0, copy_to |-> <<>>, radix_called |-> FALSE,
           CHAR_MIN |-> -128, exp |-> 0, count |-> <<>>, summed |-> <<>>,
           written |-> <<>>, s_input |-> <<>>, outcome |-> "none"]
NoAdd == [b |-> 0, num_events |-> 0, next |-> 0, pushed |-> FALSE]
NoRun == [at |-> "idle", processor_id |-> 0, events |-> 0, events_size |-> 0, popped |-> 0]
NoFifo == [add |-> NoAdd, run |-> NoRun]
NoRegistry == [lines |-> <<>>, at |-> 1, counted |-> {}, ids |-> <<>>, max |-> -1]
NoPops == [at |-> "idle", valid_pops |-> 0, finished |-> FALSE]
NoBus == [handlers |-> <<>>, handlers_queue |-> <<>>, event_queue |-> <<>>,
          thread |-> "unstarted", submitted |-> <<>>, run |-> NoPops, calls |-> 0,
          subscribed |-> <<>>, late |-> FALSE, returns |-> <<>>, execs |-> <<>>]
NoKeyed == [manager_queue |-> <<>>, events |-> <<>>,
            managers |-> [manager \in 1..KeyedGroups |-> <<>>],
            submitted |-> <<>>, allocated |-> 0, returns |-> <<>>, execs |-> <<>>]

\* a MultiEventManager after construction, no thread inside a call
Manager ==
    /\ event_count = 0
    /\ subtracted = 0
    /\ processors = <<>>
    /\ event_queue = <<>>
    /\ inflight = [t \in Threads |-> NoSubmit]
    /\ mv = -1
    /\ batches = <<>>
    /\ deleted = <<>>
    /\ entries = <<>>
    /\ entry_deleted = <<>>
    /\ delivered = <<>>
    /\ log = <<>>
    /\ alive = TRUE
    /\ crashed = FALSE
    /\ returned = -1
    /\ lock = [unique |-> 0, shared |-> {}]
    /\ pc = [t \in Threads |-> NoCall]
    /\ fifo = NoFifo
    /\ bus = NoBus
    /\ keyed = NoKeyed

Init == Manager /\ sorter = NoSort /\ registry = NoRegistry

Running == alive /\ ~crashed

ProcIds == 1..Len(processors)

\* a wrong move constructor: the handler table stays behind in other
move_constructed_without_handlers(other) ==
    [handlers |-> [t \in EventIds |-> <<>>], events_queue |-> other.events_queue,
     events_size_queue |-> other.events_size_queue]

\* EventProcessor(EventProcessor&& other): each member is moved from other, which
\* is left with an empty table and empty queues, so its destructor deletes nothing
move_constructed(other) ==
    [handlers |-> other.handlers, events_queue |-> other.events_queue,
     events_size_queue |-> other.events_size_queue]

\* a wrong push_back: the new element starts with the FIFOs of the first one
push_back_with_fifo(vec, x) ==
    Append(vec, IF vec = <<>> THEN x
                ELSE [x EXCEPT !.events_queue = vec[1].events_queue,
                               !.events_size_queue = vec[1].events_size_queue])

\* std::vector<EventProcessor>::push_back(x) when the storage grows: every
\* element is move-constructed into the new storage, x goes last
push_back(vec, x) == Append([i \in 1..Len(vec) |-> move_constructed(vec[i])], x)

\* a submit that took processors[processor_id].get_producer() before the
\* storage moved holds a reference into the old storage
moved_under(calls) ==
    [t \in Threads |-> IF calls[t] = NoSubmit THEN NoSubmit
                        ELSE [calls[t] EXCEPT !.moved = TRUE]]

\* the body of get_processor: push_back of a new EventProcessor with its own
\* producer token, return processors.size() - 1
appended ==
    /\ processors' = push_back(processors, move_constructed(EventProcessor))
    /\ event_queue' = Append(event_queue, <<>>)
    /\ delivered' = Append(delivered, <<>>)
    /\ log' = Append(log, <<>>)
    /\ inflight' = moved_under(inflight)
    /\ returned' = Len(processors') - 1

\* MultiEventManager::get_processor
get_processor ==
    /\ Running
    /\ appended
    /\ UNCHANGED <<side, lockvars>>
    /\ UNCHANGED <<event_count, subtracted, mv, batches, deleted, entries,
                   entry_deleted, alive, crashed>>

\* EventProcessor::subscribe<T, E>: a new EventHandler<T, E> goes into slot E::id
subscribed(processor_id, handler, E) ==
    /\ entries' = Append(entries, [instance |-> handler, id |-> E])
    /\ entry_deleted' = Append(entry_deleted, 0)
    /\ processors' = [processors EXCEPT ![processor_id].handlers[E] =
                          emplace_back(@, Len(entries) + 1)]

\* MultiEventManager::subscribe, from shared_lock to unlock in one step
subscribe(processor_id, handler, E) ==
    /\ Running
    /\ subscribed(processor_id, handler, E)
    /\ UNCHANGED <<side, lockvars, returned>>
    /\ UNCHANGED <<event_count, subtracted, event_queue, inflight, mv, batches, deleted,
                   delivered, log, alive, crashed>>

\* the entries the predicate of erase_if deletes or aborts on, asked in table order.
\* On an entry bound to handler it runs delete x and then x->get_handler_ptr() on
\* the deleted x; on an entry deleted earlier it calls get_handler_ptr() on it.
\* Both are undefined: the stale object answers (mode "stale") or the process
\* aborts at the first of them (mode "crash").
unsubscribe_deletes(tab, handler, ed, mode) ==
    LET ub == {j \in 1..Len(tab) : entries[tab[j]].instance = handler \/ ed[tab[j]] > 0}
        stop == IF ub = {} \/ mode = "stale" THEN Len(tab)
                ELSE CHOOSE j \in ub : \A k \in ub : j <= k
        hit == {j \in 1..stop : entries[tab[j]].instance = handler
                                /\ (mode = "stale" \/ ed[tab[j]] = 0)}
    IN  [ed |-> [x \in 1..Len(ed) |->
                    Min(MaxDeletes, ed[x] + Cardinality({j \in hit : tab[j] = x}))],
         crashed |-> ub # {} /\ mode = "crash"]

\* EventProcessor::unsubscribe<T>
unsubscribed(processor_id, handler) ==
    /\ \E mode \in {"stale", "crash"} :
         LET r == unsubscribe_deletes(table_entries(processors[processor_id].handlers),
                                      handler, entry_deleted, mode)
         IN  /\ entry_deleted' = r.ed
             /\ crashed' = r.crashed
    /\ processors' = [processors EXCEPT ![processor_id].handlers =
                          unsubscribe_handlers(@, handler)]

\* MultiEventManager::unsubscribe, from shared_lock to unlock in one step
unsubscribe(processor_id, handler) ==
    /\ Running
    /\ unsubscribed(processor_id, handler)
    /\ UNCHANGED <<side, lockvars, returned>>
    /\ UNCHANGED <<event_count, subtracted, event_queue, inflight, mv, batches, deleted,
                   entries, delivered, log, alive>>

\* a wrong fetch_add: the value is read and written back in two steps, and the
\* write of another thread in between wins
fetch_add_lost(count, arg) ==
    [value |-> IF count > 0 THEN count - 1 ELSE count, count |-> count + arg]

\* std::atomic<size_t>::fetch_add(arg): returns the old value, adds arg, at once
fetch_add(count, arg) == [value |-> count, count |-> count + arg]

\* MultiEventManager::submit, first half: event_count.fetch_add(1) stamps the pair
\* (the caller's new Event is named by the stamp; deleted gets its counter)
submit_fetch_add(t, processor_id, id) ==
    /\ Running
    /\ inflight[t] = NoSubmit
    /\ inflight' = [inflight EXCEPT ![t] =
                        [pair |-> [first |-> [addr |-> event_count, id |-> id],
                                   second |-> fetch_add(event_count, 1).value],
                         processor_id |-> processor_id, moved |-> FALSE]]
    /\ event_count' = fetch_add(event_count, 1).count
    /\ deleted' = Append(deleted, 0)
    /\ UNCHANGED <<side, lockvars, returned>>
    /\ UNCHANGED <<subtracted, processors, event_queue, mv, batches, entries,
                   entry_deleted, delivered, log, alive, crashed>>

\* MultiEventManager::submit, second half: enqueue with the processor's token
\* (no lock is held: when a get_processor moved the processors meanwhile, the
\* token reference may dangle; using it is undefined: the enqueue goes through,
\* or the process aborts)
submit_enqueue(t) ==
    /\ Running
    /\ inflight[t] # NoSubmit
    /\ \/ /\ event_queue' = [event_queue EXCEPT ![inflight[t].processor_id] =
                                 Append(@, inflight[t].pair)]
          /\ inflight' = [inflight EXCEPT ![t] = NoSubmit]
          /\ UNCHANGED crashed
       \/ /\ inflight[t].moved
          /\ crashed' = TRUE
          /\ UNCHANGED <<event_queue, inflight>>
    /\ UNCHANGED <<side, lockvars, returned>>
    /\ UNCHANGED <<event_count, subtracted, processors, mv, batches, deleted, entries,
                   entry_deleted, delivered, log, alive>>

\* move_to_processors, first line: size_t event_count = this->event_count
move_load ==
    /\ Running
    /\ mv = -1
    /\ mv' = event_count
    /\ UNCHANGED <<side, lockvars, returned>>
    /\ UNCHANGED <<event_count, subtracted, processors, event_queue, inflight, batches,
                   deleted, entries, entry_deleted, delivered, log, alive, crashed>>

\* a wrong resize: one pair too few is kept
resized_short(got, event_got) ==
    IF event_got = 0 THEN <<>> ELSE SubSeq(got, 1, event_got - 1)

\* stored.resize(event_got): the pairs actually dequeued
resized(got, event_got) == SubSeq(got, 1, event_got)

\* move_to_processors, the rest: dequeue, sort, wrap, hand to every processor
move_to_processors ==
    /\ Running
    /\ mv # -1
    /\ \E order \in Orders(Len(processors)) :
         LET deq == try_dequeue_bulk(event_queue, mv - subtracted, order, <<>>)
             event_got == Len(deq.got)
             stored == resized(deq.got, event_got)
             copy_to == multithreaded_radix(stored)
             event_shared == create_delete_shared(copy_to)
             b == Len(batches) + 1
             \* one copy of the shared_ptr per processor, then the local one goes
             shared == shared_copies(event_shared, Len(processors))
             st == release([batches |-> Append(batches, shared), deleted |-> deleted], b)
         IN  /\ event_queue' = deq.queue
             /\ processors' = [p \in ProcIds |-> add_events(processors[p], b, event_got)]
             /\ delivered' = [p \in ProcIds |-> Append(delivered[p], b)]
             /\ batches' = st.batches
             /\ deleted' = st.deleted
             /\ subtracted' = subtracted + event_got
    /\ mv' = -1
    /\ UNCHANGED <<side, lockvars, returned>>
    /\ UNCHANGED <<event_count, inflight, entries, entry_deleted, log, alive, crashed>>

\* MultiEventManager::process_events -> EventProcessor::process_events
process_events(processor_id) ==
    /\ Running
    /\ \E mode \in {"stale", "crash"} :
         LET st == process_loop([events_queue |-> processors[processor_id].events_queue,
                                 events_size_queue |->
                                     processors[processor_id].events_size_queue,
                                 batches |-> batches, deleted |-> deleted,
                                 entry_deleted |-> entry_deleted,
                                 log |-> log[processor_id], crashed |-> FALSE],
                                processors[processor_id].handlers, mode)
         IN  /\ processors' = [processors EXCEPT
                                   ![processor_id].events_queue = st.events_queue,
                                   ![processor_id].events_size_queue = st.events_size_queue]
             /\ batches' = st.batches
             /\ deleted' = st.deleted
             /\ log' = [log EXCEPT ![processor_id] = st.log]
             /\ crashed' = st.crashed
    /\ UNCHANGED <<side, lockvars, returned>>
    /\ UNCHANGED <<event_count, subtracted, event_queue, inflight, mv, entries,
                   entry_deleted, delivered, alive>>

\* ~EventProcessor for one processor: delete every entry of the table, then the
\* members go: every shared_ptr of events_queue is released
RECURSIVE release_all(_, _)
release_all(st, events_queue) ==
    IF events_queue = <<>> THEN st
    ELSE release_all(release(st, Head(events_queue)), Tail(events_queue))

destroy_entries(ed, tab) ==
    [x \in 1..Len(ed) |->
        Min(MaxDeletes, ed[x] + Cardinality({j \in 1..Len(tab) : tab[j] = x}))]

RECURSIVE destroy_processors(_, _)
destroy_processors(st, ps) ==
    IF ps = <<>> THEN st
    ELSE LET r == release_all(st, Head(ps).events_queue)
         IN  destroy_processors(
                 [r EXCEPT !.entry_deleted =
                      destroy_entries(@, table_entries(Head(ps).handlers))], Tail(ps))

\* ~MultiEventManager: the vector of processors is destroyed; the intake queue
\* drops its pairs without deleting the events they point to
teardown ==
    /\ Running
    /\ mv = -1
    /\ \A t \in Threads : inflight[t] = NoSubmit
    /\ LET st == destroy_processors([batches |-> batches, deleted |-> deleted,
                                     entry_deleted |-> entry_deleted], processors)
       IN  /\ batches' = st.batches
           /\ deleted' = st.deleted
           /\ entry_deleted' = st.entry_deleted
           \* delete on an entry deleted before is undefined: it may abort
           /\ crashed' \in {FALSE, \E x \in 1..Len(entries) : st.entry_deleted[x] > 1}
    /\ alive' = FALSE
    /\ UNCHANGED <<side, lockvars, returned>>
    /\ UNCHANGED <<event_count, subtracted, processors, event_queue, inflight, mv,
                   entries, delivered, log>>

\* one step of the program, within the bounds B of a specification
Step(B) ==
    \/ Len(processors) < B.processors /\ get_processor
    \/ /\ Len(entries) < B.entries
       /\ \E p \in ProcIds, h \in 1..B.handlers, E \in EventIds : subscribe(p, h, E)
    \/ \E p \in ProcIds, h \in 1..B.handlers : unsubscribe(p, h)
    \/ /\ event_count < B.events
       /\ \E t \in 1..B.threads, p \in ProcIds, id \in EventIds :
              submit_fetch_add(t, p, id)
    \/ \E t \in Threads : submit_enqueue(t)
    \/ Len(batches) < B.batches /\ move_load
    \/ move_to_processors
    \/ \E p \in ProcIds : process_events(p)
    \/ teardown

Next ==
    Step([threads |-> NumThreads, processors |-> MaxProcessors, events |-> MaxEvents,
          batches |-> MaxBatches, entries |-> MaxEntries, handlers |-> MaxHandlers])

Spec == Init /\ [][Next]_vars

TableNext ==
    Step([threads |-> TableThreads, processors |-> TableProcessors,
          events |-> TableEvents, batches |-> TableBatches, entries |-> TableEntries,
          handlers |-> TableHandlers])

SpecTable == Init /\ [][TableNext]_vars

\* The caller of main.cpp and of the older main: one thread submits through
\* processor 1 and every move_to_processors is followed by one process_events(1)
\* before the next one starts.  Processors are created and handlers subscribed
\* before the first submit.
CycleNext ==
    \/ event_count = 0 /\ Len(processors) < CycleProcessors /\ get_processor
    \/ /\ event_count = 0
       /\ Len(entries) < CycleEntries
       /\ 1 \in ProcIds
       /\ \E h \in 1..CycleHandlers, E \in EventIds : subscribe(1, h, E)
    \/ /\ event_count < CycleEvents
       /\ 1 \in ProcIds
       /\ \E id \in EventIds : submit_fetch_add(1, 1, id)
    \/ submit_enqueue(1)
    \/ /\ Len(batches) < CycleBatches
       /\ 1 \in ProcIds
       /\ processors[1].events_queue = <<>>
       /\ move_load
    \/ move_to_processors
    \/ /\ 1 \in ProcIds
       /\ mv = -1
       /\ processors[1].events_queue # <<>>
       /\ process_events(1)

SpecCycle == Init /\ [][CycleNext]_vars

(* ------------- multithreaded_radix and radix on their own ------------- *)
\* sequence numbers that make the sort take its different paths: a largest number
\* below 2^(base-1), one bucket or several, one, two or three passes of radix
SortNumbers == {0, 1, 5, 9, 33, 40, 1025, 1030}

\* what try_dequeue_bulk can hand to the sort: pairs in any order, no sequence
\* number twice; the event of a pair is named by its place in the input
SortInputs ==
    UNION {{[i \in 1..n |-> [first |-> [addr |-> i, id |-> 0], second |-> f[i]]] :
               f \in {g \in [1..n -> SortNumbers] :
                         \A i, j \in 1..n : g[i] = g[j] => i = j}} :
           n \in 0..SortLen}

SortInit ==
    /\ Manager
    /\ registry = NoRegistry
    /\ sorter \in {[NoSort EXCEPT !.input = in] : in \in SortInputs}

\* auto copy_to = multithreaded_radix<Event*, 32>(stored)
sort_call ==
    /\ ~sorter.called
    /\ sorter' = [sorter EXCEPT !.output = multithreaded_radix(sorter.input),
                                !.buckets = buckets_of(sorter.input),
                                !.threads = threads_started(sorter.input),
                                !.joined = threads_joined(threads_started(sorter.input)),
                                !.called = TRUE]
    /\ UNCHANGED <<event_count, subtracted, processors, event_queue, inflight, mv,
                   batches, deleted, entries, entry_deleted, delivered, log, alive,
                   crashed, returned, lock, pc, fifo, registry, bus, keyed>>

\* event.h: auto copy_to = radix(stored)
radix_call ==
    /\ ~sorter.radix_called
    /\ sorter' = [sorter EXCEPT !.copy_to = radix10(sorter.input),
                                !.radix_called = TRUE]
    /\ UNCHANGED <<event_count, subtracted, processors, event_queue, inflight, mv,
                   batches, deleted, entries, entry_deleted, delivered, log, alive,
                   crashed, returned, lock, pc, fifo, registry, bus, keyed>>

SortNext == sort_call \/ radix_call

SpecSort == SortInit /\ [][SortNext]_vars

(* ------------- event.h's count_sort on inputs of any length ----------- *)
\* consecutive sequence numbers, or every tenth one (one last
\* digit for all)
CountStrides == {1, 10}

\* inputs of every length up to CountLen, in ascending or descending order of
\* sequence number; the event of a pair is named by its place in the input
CountInputs ==
    UNION {{[i \in 1..n |-> [first |-> [addr |-> i, id |-> 0],
                             second |-> stride * (IF up THEN i ELSE n - i + 1)]] :
               stride \in CountStrides, up \in BOOLEAN} :
           n \in 0..CountLen}

CountInit ==
    /\ Manager
    /\ registry = NoRegistry
    /\ sorter \in {[NoSort EXCEPT !.input = in, !.CHAR_MIN = least] :
                      in \in CountInputs, least \in {-128, 0}}

\* count_sort(input, s_input, exp), as radix calls it on a fresh s_input. A
\* store outside s_input is undefined behaviour: the process aborts, or the
\* store overwrites memory that is not s_input's and the call returns
count_sort_call(exp) ==
    /\ sorter.outcome = "none"
    /\ \E count \in {count_digits10(sorter.input, exp)} :
       \E summed \in {count_prefix10(count)} :
       \E written \in {count_written(sorter.input, summed, exp)} :
       \E outcome \in IF \A k \in 1..Len(written) :
                            written[k] \in 0..(Len(sorter.input) - 1)
                      THEN {"returned"} ELSE {"aborted", "overwrote"} :
          sorter' = [sorter EXCEPT
                        !.exp = exp,
                        !.count = count,
                        !.summed = summed,
                        !.written = written,
                        !.s_input = count_place10(sorter.input, written,
                                        [i \in 1..Len(sorter.input) |-> NoPair]),
                        !.outcome = outcome]
    /\ UNCHANGED <<event_count, subtracted, processors, event_queue, inflight, mv,
                   batches, deleted, entries, entry_deleted, delivered, log, alive,
                   crashed, returned, lock, pc, fifo, registry, bus, keyed>>

CountNext == \E exp \in {1, 10} : count_sort_call(exp)

SpecCount == CountInit /\ [][CountNext]_vars

(* ---------------- EVENT_GEN, MAX_EVENT_INIT and counter ---------------- *)
TypeNames == {"Event1", "Event2", "Event3", "Event4"}

\* the translation unit that defines EVENT_IMPLEMENTATION: its EVENT_GEN(x)
\* lines, each type once, and its one MAX_EVENT_INIT line, in any place
TranslationUnits ==
    UNION {{SubSeq(ts, 1, k) \o <<"MAX_EVENT_INIT">> \o SubSeq(ts, k + 1, n) :
               ts \in {g \in [1..n -> TypeNames] :
                          \A i, j \in 1..n : g[i] = g[j] => i = j},
               k \in 0..n} :
           n \in 0..MaxTypes}

\* a wrong counter_impl: it never looks past the first value
counter_impl_first(counted, NextVal) == NextVal

\* counter_impl<Tag, NextVal>: counted_flag(reader<NextVal>) is defined once
\* setter<NextVal> has been instantiated; the first NextVal without it is the
\* value
RECURSIVE counter_impl(_, _)
counter_impl(counted, NextVal) ==
    IF NextVal \in counted THEN counter_impl(counted, NextVal + 1) ELSE NextVal

\* counter<>: every use has a Tag of its own, so counter_impl<Tag>() is
\* evaluated anew; setter<Val>::n instantiates setter<Val>
counter(counted) ==
    LET Val == counter_impl(counted, 0)
    IN  [Val |-> Val, counted |-> counted \cup {Val}]

TypesInit ==
    /\ Manager
    /\ sorter = NoSort
    /\ registry \in {[NoRegistry EXCEPT !.lines = l] : l \in TranslationUnits}

\* EVENT_GEN(x): const size_t x::id = counter<>
EVENT_GEN ==
    /\ registry.at <= Len(registry.lines)
    /\ registry.lines[registry.at] # "MAX_EVENT_INIT"
    /\ registry' = [registry EXCEPT
                        !.at = @ + 1,
                        !.counted = counter(@).counted,
                        !.ids = Append(@, [type |-> registry.lines[registry.at],
                                           id |-> counter(registry.counted).Val])]
    /\ UNCHANGED <<event_count, subtracted, processors, event_queue, inflight, mv,
                   batches, deleted, entries, entry_deleted, delivered, log, alive,
                   crashed, returned, lock, pc, fifo, sorter, bus, keyed>>

\* MAX_EVENT_INIT: const size_t max_event_types = counter<>
MAX_EVENT_INIT ==
    /\ registry.at <= Len(registry.lines)
    /\ registry.lines[registry.at] = "MAX_EVENT_INIT"
    /\ registry' = [registry EXCEPT !.at = @ + 1,
                                    !.counted = counter(@).counted,
                                    !.max = counter(registry.counted).Val]
    /\ UNCHANGED <<event_count, subtracted, processors, event_queue, inflight, mv,
                   batches, deleted, entries, entry_deleted, delivered, log, alive,
                   crashed, returned, lock, pc, fifo, sorter, bus, keyed>>

\* EventProcessor(token): handlers(max_event_types), the size of every table
handlers_size == registry.max

TypesNext == EVENT_GEN \/ MAX_EVENT_INIT

SpecTypes == TypesInit /\ [][TypesNext]_vars

(* ------- move_to_processors and process_events, one step at a time ------ *)
\* move_to_processors up to create_delete_shared: the batch exists and the
\* local event_shared owns it; the loop over processors is still to come
move_make ==
    /\ Running
    /\ mv # -1
    /\ fifo.add = NoAdd
    /\ \E order \in Orders(Len(processors)) :
         LET deq == try_dequeue_bulk(event_queue, mv - subtracted, order, <<>>)
             event_got == Len(deq.got)
             stored == resized(deq.got, event_got)
             copy_to == multithreaded_radix(stored)
             event_shared == create_delete_shared(copy_to)
         IN  /\ event_queue' = deq.queue
             /\ batches' = Append(batches, event_shared)
             /\ fifo' = [fifo EXCEPT !.add = [b |-> Len(batches) + 1,
                                              num_events |-> event_got,
                                              next |-> 1, pushed |-> FALSE]]
    /\ UNCHANGED <<sorter, registry, bus, keyed, lockvars, returned>>
    /\ UNCHANGED <<event_count, subtracted, processors, inflight, mv, deleted, entries,
                   entry_deleted, delivered, log, alive, crashed>>

\* add_events, first statement: events_queue.push(events)
add_push_events ==
    /\ Running
    /\ fifo.add.b # 0
    /\ ~fifo.add.pushed
    /\ fifo.add.next \in ProcIds
    /\ processors' = [processors EXCEPT ![fifo.add.next].events_queue =
                          Append(@, fifo.add.b)]
    /\ batches' = [batches EXCEPT ![fifo.add.b] = shared_copies(@, 1)]
    /\ delivered' = [delivered EXCEPT ![fifo.add.next] = Append(@, fifo.add.b)]
    /\ fifo' = [fifo EXCEPT !.add.pushed = TRUE]
    /\ UNCHANGED <<sorter, registry, bus, keyed, lockvars, returned>>
    /\ UNCHANGED <<event_count, subtracted, event_queue, inflight, mv, deleted, entries,
                   entry_deleted, log, alive, crashed>>

\* add_events, second statement: events_size_queue.push(num_events)
add_push_size ==
    /\ Running
    /\ fifo.add.pushed
    /\ processors' = [processors EXCEPT ![fifo.add.next].events_size_queue =
                          Append(@, fifo.add.num_events)]
    /\ fifo' = [fifo EXCEPT !.add.pushed = FALSE, !.add.next = @ + 1]
    /\ UNCHANGED <<sorter, registry, bus, keyed, lockvars, returned>>
    /\ UNCHANGED <<event_count, subtracted, event_queue, inflight, mv, batches, deleted,
                   entries, entry_deleted, delivered, log, alive, crashed>>

\* move_to_processors after the loop: subtracted += event_got, and the local
\* event_shared goes
move_finish ==
    /\ Running
    /\ fifo.add.b # 0
    /\ ~fifo.add.pushed
    /\ fifo.add.next > Len(processors)
    /\ subtracted' = subtracted + fifo.add.num_events
    /\ LET st == release([batches |-> batches, deleted |-> deleted], fifo.add.b)
       IN  batches' = st.batches /\ deleted' = st.deleted
    /\ mv' = -1
    /\ fifo' = [fifo EXCEPT !.add = NoAdd]
    /\ UNCHANGED <<sorter, registry, bus, keyed, lockvars, returned>>
    /\ UNCHANGED <<event_count, processors, event_queue, inflight, entries,
                   entry_deleted, delivered, log, alive, crashed>>

\* process_events: the loop test and auto& events = events_queue.back()
process_back(processor_id) ==
    /\ Running
    /\ fifo.run = NoRun
    /\ processors[processor_id].events_queue # <<>>
    /\ fifo' = [fifo EXCEPT !.run =
                    [NoRun EXCEPT !.at = "size", !.processor_id = processor_id,
                                  !.events = dispatched_batch(
                                                 processors[processor_id].events_queue)]]
    /\ UNCHANGED <<sorter, registry, bus, keyed, lockvars, returned>>
    /\ UNCHANGED <<event_count, subtracted, processors, event_queue, inflight, mv,
                   batches, deleted, entries, entry_deleted, delivered, log, alive,
                   crashed>>

\* process_events: size_t events_size = events_size_queue.back().  back() of an
\* empty queue is undefined: the process aborts or reads the zero of fresh storage
process_size ==
    /\ Running
    /\ fifo.run.at = "size"
    /\ LET sizes == processors[fifo.run.processor_id].events_size_queue
       IN  \/ /\ sizes # <<>>
              /\ fifo' = [fifo EXCEPT !.run.at = "dispatch",
                                      !.run.events_size = dispatched_size(sizes)]
              /\ UNCHANGED crashed
           \/ /\ sizes = <<>>
              /\ fifo' = [fifo EXCEPT !.run.at = "dispatch", !.run.events_size = 0]
              /\ UNCHANGED crashed
           \/ /\ sizes = <<>>
              /\ crashed' = TRUE
              /\ UNCHANGED fifo
    /\ UNCHANGED <<sorter, registry, bus, keyed, lockvars, returned>>
    /\ UNCHANGED <<event_count, subtracted, processors, event_queue, inflight, mv,
                   batches, deleted, entries, entry_deleted, delivered, log, alive>>

\* process_events: the loop over events[i], i < events_size.  A size above the
\* batch's own reads past the array: undefined, taken as an abort
process_dispatch ==
    /\ Running
    /\ fifo.run.at = "dispatch"
    /\ LET p == fifo.run.processor_id
           events == batches[fifo.run.events].events
       IN  IF fifo.run.events_size > Len(events)
           THEN crashed' = TRUE /\ UNCHANGED <<log, fifo>>
           ELSE \E mode \in {"stale", "crash"} :
                  LET st == dispatch_batch([deleted |-> deleted,
                                            entry_deleted |-> entry_deleted,
                                            log |-> log[p], crashed |-> FALSE],
                                           events, 1, fifo.run.events_size,
                                           processors[p].handlers, mode)
                  IN  /\ log' = [log EXCEPT ![p] = st.log]
                      /\ crashed' = st.crashed
                      /\ fifo' = [fifo EXCEPT !.run.at = "pop"]
    /\ UNCHANGED <<sorter, registry, bus, keyed, lockvars, returned>>
    /\ UNCHANGED <<event_count, subtracted, processors, event_queue, inflight, mv,
                   batches, deleted, entries, entry_deleted, delivered, alive>>

\* process_events: events_queue.pop()
process_pop ==
    /\ Running
    /\ fifo.run.at = "pop"
    /\ LET p == fifo.run.processor_id
           b == popped_batch(processors[p].events_queue)
           st == release([batches |-> batches, deleted |-> deleted], b)
       IN  /\ processors' = [processors EXCEPT ![p].events_queue = Tail(@)]
           /\ batches' = st.batches
           /\ deleted' = st.deleted
           /\ fifo' = [fifo EXCEPT !.run.at = "pop_size", !.run.popped = b]
    /\ UNCHANGED <<sorter, registry, bus, keyed, lockvars, returned>>
    /\ UNCHANGED <<event_count, subtracted, event_queue, inflight, mv, entries,
                   entry_deleted, delivered, log, alive, crashed>>

\* process_events: events_size_queue.pop(), then back to the loop test.  pop()
\* of an empty queue is undefined, taken as an abort
process_pop_size ==
    /\ Running
    /\ fifo.run.at = "pop_size"
    /\ LET p == fifo.run.processor_id
       IN  IF processors[p].events_size_queue = <<>>
           THEN crashed' = TRUE /\ UNCHANGED <<processors, fifo>>
           ELSE /\ processors' = [processors EXCEPT ![p].events_size_queue = Tail(@)]
                /\ fifo' = [fifo EXCEPT !.run = NoRun]
                /\ UNCHANGED crashed
    /\ UNCHANGED <<sorter, registry, bus, keyed, lockvars, returned>>
    /\ UNCHANGED <<event_count, subtracted, event_queue, inflight, mv, batches, deleted,
                   entries, entry_deleted, delivered, log, alive>>

\* the coordinator thread moves, a worker thread runs process_events, one
\* producer submits
FifoNext ==
    \/ Len(processors) < FifoProcessors /\ get_processor
    \/ /\ event_count < FifoEvents
       /\ \E p \in ProcIds, id \in EventIds : submit_fetch_add(1, p, id)
    \/ submit_enqueue(1)
    \/ Len(batches) < FifoBatches /\ move_load
    \/ move_make
    \/ add_push_events
    \/ add_push_size
    \/ move_finish
    \/ \E p \in ProcIds : process_back(p)
    \/ process_size
    \/ process_dispatch
    \/ process_pop
    \/ process_pop_size

SpecFifo == Init /\ [][FifoNext]_vars

(* ---------------- the locked calls, one step at a time ----------------- *)
\* a wrong shared_lock: the call goes on without owning the mutex
shared_lock_absent(l, t) == l

\* std::shared_lock lock(processor_and_sub): t becomes one of the shared owners
shared_lock(l, t) == [l EXCEPT !.shared = @ \cup {t}]

\* std::unique_lock lock(processor_and_sub): t becomes the only owner
unique_lock(l, t) == [l EXCEPT !.unique = t]

\* the lock's destructor at the end of the call
unlock(l, t) ==
    [l EXCEPT !.unique = IF @ = t THEN 0 ELSE @, !.shared = @ \ {t}]

\* get_processor, first line: blocks until nobody owns the mutex
get_processor_lock(t) ==
    /\ Running
    /\ pc[t] = NoCall /\ inflight[t] = NoSubmit
    /\ lock.unique = 0 /\ lock.shared = {}
    /\ lock' = unique_lock(lock, t)
    /\ pc' = [pc EXCEPT ![t] = [NoCall EXCEPT !.op = "get_processor"]]
    /\ UNCHANGED <<side, returned>>
    /\ UNCHANGED <<event_count, subtracted, processors, event_queue, inflight, mv,
                   batches, deleted, entries, entry_deleted, delivered, log, alive,
                   crashed>>

\* get_processor, the push_back, with the mutex owned
get_processor_push(t) ==
    /\ Running
    /\ pc[t].op = "get_processor" /\ ~pc[t].done
    /\ appended
    /\ pc' = [pc EXCEPT ![t].done = TRUE]
    /\ UNCHANGED <<side, lock>>
    /\ UNCHANGED <<event_count, subtracted, mv, batches, deleted, entries,
                   entry_deleted, alive, crashed>>

\* subscribe or unsubscribe, first line: blocks while a get_processor owns the mutex
shared_call_lock(t, op, processor_id, handler, E) ==
    /\ Running
    /\ pc[t] = NoCall /\ inflight[t] = NoSubmit
    /\ lock.unique = 0
    /\ lock' = shared_lock(lock, t)
    /\ pc' = [pc EXCEPT ![t] = [op |-> op, processor_id |-> processor_id,
                                 handler |-> handler, E |-> E, done |-> FALSE]]
    /\ UNCHANGED <<side, returned>>
    /\ UNCHANGED <<event_count, subtracted, processors, event_queue, inflight, mv,
                   batches, deleted, entries, entry_deleted, delivered, log, alive,
                   crashed>>

\* two calls that own the mutex in shared mode at once and work on the same
\* vector, one of them writing it: subscribe against subscribe on one slot, or
\* subscribe against unsubscribe on one processor
conflict(a, b) ==
    /\ a.processor_id = b.processor_id
    /\ \/ a.op = "subscribe" /\ b.op = "subscribe" /\ a.E = b.E
       \/ a.op = "subscribe" /\ b.op = "unsubscribe"
       \/ a.op = "unsubscribe" /\ b.op = "subscribe"

\* t's body runs while another shared owner has its conflicting body still to do
races(t) ==
    \E u \in Threads : u # t /\ pc[u].op # "none" /\ ~pc[u].done /\ conflict(pc[t], pc[u])

\* subscribe, the delegation to the processor, with the mutex owned in shared
\* mode; a data race is undefined: the call goes through or the process aborts
subscribe_body(t) ==
    /\ Running
    /\ pc[t].op = "subscribe" /\ ~pc[t].done
    /\ subscribed(pc[t].processor_id, pc[t].handler, pc[t].E)
    /\ crashed' \in {FALSE, races(t)}
    /\ pc' = [pc EXCEPT ![t].done = TRUE]
    /\ UNCHANGED <<side, lock, returned>>
    /\ UNCHANGED <<event_count, subtracted, event_queue, inflight, mv, batches, deleted,
                   delivered, log, alive>>

\* unsubscribe, the delegation to the processor, with the mutex owned in shared mode
unsubscribe_body(t) ==
    /\ Running
    /\ pc[t].op = "unsubscribe" /\ ~pc[t].done
    /\ \/ unsubscribed(pc[t].processor_id, pc[t].handler)
       \/ races(t) /\ crashed' = TRUE /\ UNCHANGED <<entry_deleted, processors>>
    /\ pc' = [pc EXCEPT ![t].done = TRUE]
    /\ UNCHANGED <<side, lock, returned>>
    /\ UNCHANGED <<event_count, subtracted, event_queue, inflight, mv, batches, deleted,
                   entries, delivered, log, alive>>

\* the end of a locked call: the lock object is destroyed
call_return(t) ==
    /\ Running
    /\ pc[t].op # "none" /\ pc[t].done
    /\ lock' = unlock(lock, t)
    /\ pc' = [pc EXCEPT ![t] = NoCall]
    /\ UNCHANGED <<side, returned>>
    /\ UNCHANGED <<event_count, subtracted, processors, event_queue, inflight, mv,
                   batches, deleted, entries, entry_deleted, delivered, log, alive,
                   crashed>>

\* subscribe calls that will still allocate an entry
pending_entries == Cardinality({t \in Threads : pc[t].op = "subscribe" /\ ~pc[t].done})

\* the manager's calls with the locked ones taken apart; submit, process_events
\* and move_to_processors take no lock and run as before
LockNext ==
    \/ \E t \in 1..LockThreads :
          Len(processors) < LockProcessors /\ get_processor_lock(t)
    \/ \E t \in 1..LockThreads : get_processor_push(t)
    \/ /\ Len(entries) + pending_entries < LockEntries
       /\ \E t \in 1..LockThreads, p \in ProcIds, h \in 1..LockHandlers, E \in EventIds :
              shared_call_lock(t, "subscribe", p, h, E)
    \/ \E t \in 1..LockThreads, p \in ProcIds, h \in 1..LockHandlers :
          shared_call_lock(t, "unsubscribe", p, h, 0)
    \/ \E t \in 1..LockThreads : subscribe_body(t)
    \/ \E t \in 1..LockThreads : unsubscribe_body(t)
    \/ \E t \in 1..LockThreads : call_return(t)
    \/ /\ event_count < LockEvents
       /\ \E t \in 1..LockThreads, p \in ProcIds, id \in EventIds :
              pc[t] = NoCall /\ submit_fetch_add(t, p, id)
    \/ \E t \in 1..LockThreads : submit_enqueue(t)
    \/ Len(batches) < LockBatches /\ move_load
    \/ move_to_processors
    \/ \E p \in ProcIds : process_events(p)

SpecLock == Init /\ [][LockNext]_vars

(* ------------------- the lock-free drafts (part_001) ------------------ *)
\* everything of the batching manager, which the drafts never touch
pipeline == <<event_count, subtracted, processors, event_queue, inflight, mv, batches,
              deleted, entries, entry_deleted, delivered, log, alive, crashed, returned,
              lock, pc, fifo, sorter, registry>>

\* class TestEvent, class YummyEvent
DraftTypes == {"TestEvent", "YummyEvent"}

\* TestEventHandler handler; TestEventHandler2 handler2
DraftInstances == {1, 2}

\* xenium::ramalhete_queue<T>::push: a linearizable FIFO
push(queue, value) == Append(queue, value)

\* xenium::ramalhete_queue<T>::try_pop: false on the empty queue, else the head
try_pop(queue) ==
    IF queue = <<>> THEN [ok |-> FALSE, queue |-> queue]
    ELSE [ok |-> TRUE, value |-> Head(queue), queue |-> Tail(queue)]

\* new MemberFunctionHandler<T, E>(handler, mem_fun)
MemberFunctionHandler(ptr, instance, E, since) ==
    [ptr |-> ptr, instance |-> instance, tinfo |-> E, since |-> since]

multimap_insert_unique(handlers, handler) ==
    Append(SelectSeq(handlers, LAMBDA x : x.tinfo # handler.tinfo), handler)

\* std::multimap::insert: equal keys stay in insertion order
multimap_insert(handlers, handler) == Append(handlers, handler)

\* handlers.equal_range(std::type_index(typeid(*event)))
equal_range(handlers, tinfo) == SelectSeq(handlers, LAMBDA x : x.tinfo = tinfo)

\* for (auto it = range.first; it != range.second; it++) it->second->exec(event)
exec_range(range, event) ==
    [i \in 1..Len(range) |-> [handler |-> range[i].ptr, event |-> event.addr]]

\* manager.subscribe<T, E>(&handler, &T::handle)
EventManager_subscribe(handler, E) ==
    /\ Len(bus.subscribed) < BusHandlers
    /\ LET created == MemberFunctionHandler(Len(bus.subscribed) + 1, handler, E,
                                            Len(bus.submitted))
       IN  bus' = [bus EXCEPT !.subscribed = Append(@, created),
                              !.handlers_queue = push(@, created),
                              !.late = @ \/ bus.calls > 0]
    /\ UNCHANGED <<pipeline, keyed>>

\* std::thread thread(create_tests)
thread_start ==
    /\ bus.thread = "unstarted"
    /\ bus' = [bus EXCEPT !.thread = "running"]
    /\ UNCHANGED <<pipeline, keyed>>

\* the producer thread: global_handler->submit(new E)
EventManager_submit(E) ==
    /\ bus.thread = "running"
    /\ Len(bus.submitted) < BusEvents
    /\ LET event == [addr |-> Len(bus.submitted) + 1, type |-> E]
       IN  bus' = [bus EXCEPT !.event_queue = push(@, event),
                              !.submitted = Append(@, event)]
    /\ UNCHANGED <<pipeline, keyed>>

\* the producer thread returns from its loop
thread_finish ==
    /\ bus.thread = "running"
    /\ bus' = [bus EXCEPT !.thread = "finished"]
    /\ UNCHANGED <<pipeline, keyed>>

\* thread.join(), called by the thread that calls process_events
thread_join ==
    /\ bus.thread = "finished"
    /\ bus.run.at = "idle"
    /\ bus' = [bus EXCEPT !.thread = "joined"]
    /\ UNCHANGED <<pipeline, keyed>>

\* manager.process_events(): the call is entered
EventManager_process_events ==
    /\ bus.run.at = "idle"
    /\ bus.calls < BusCalls
    /\ bus' = [bus EXCEPT !.calls = @ + 1,
                          !.run = [at |-> "handlers", valid_pops |-> 0,
                                   finished |-> bus.thread \in {"finished", "joined"}]]
    /\ UNCHANGED <<pipeline, keyed>>

\* queue_to_handlers: try_pop succeeds, the handler is inserted
queue_to_handlers ==
    /\ bus.run.at = "handlers"
    /\ try_pop(bus.handlers_queue).ok
    /\ bus' = [bus EXCEPT
                  !.handlers_queue = try_pop(bus.handlers_queue).queue,
                  !.handlers = multimap_insert(@, try_pop(bus.handlers_queue).value),
                  !.run.valid_pops = @ + 1]
    /\ UNCHANGED <<pipeline, keyed>>

\* queue_to_handlers: try_pop fails; while (queue_to_handlers() != 0) goes round
\* again after a call that popped something and stops after one that popped nothing
queue_to_handlers_break ==
    /\ bus.run.at = "handlers"
    /\ ~try_pop(bus.handlers_queue).ok
    /\ bus' = [bus EXCEPT
                  !.run.at = IF bus.run.valid_pops # 0 THEN "handlers" ELSE "events",
                  !.run.valid_pops = 0]
    /\ UNCHANGED <<pipeline, keyed>>

\* process_events: event_queue.try_pop(event) succeeds, the range is executed
EventManager_exec ==
    /\ bus.run.at = "events"
    /\ try_pop(bus.event_queue).ok
    /\ LET event == try_pop(bus.event_queue).value
           range == equal_range(bus.handlers, event.type)
       IN  bus' = [bus EXCEPT !.event_queue = try_pop(bus.event_queue).queue,
                              !.execs = @ \o exec_range(range, event),
                              !.run.valid_pops = @ + 1]
    /\ UNCHANGED <<pipeline, keyed>>

\* process_events: try_pop fails, break; return valid_pops
EventManager_return ==
    /\ bus.run.at = "events"
    /\ ~try_pop(bus.event_queue).ok
    /\ bus' = [bus EXCEPT !.returns = Append(@, [valid_pops |-> bus.run.valid_pops,
                                                 finished |-> bus.run.finished]),
                          !.run = NoPops]
    /\ UNCHANGED <<pipeline, keyed>>

BusNext ==
    \/ \E handler \in DraftInstances, E \in DraftTypes : EventManager_subscribe(handler, E)
    \/ thread_start
    \/ \E E \in DraftTypes : EventManager_submit(E)
    \/ thread_finish
    \/ thread_join
    \/ EventManager_process_events
    \/ queue_to_handlers
    \/ queue_to_handlers_break
    \/ EventManager_exec
    \/ EventManager_return

SpecBus == Init /\ [][BusNext]_vars

(* ---------------- the keyed draft MultiEventManager<H> ---------------- *)
\* the keys of type H that name the handler groups
DraftKeys == 1..KeyedGroups

\* queue_to_managers, run until it pops nothing: every queued pair is inserted
\* into the multimap of its key
RECURSIVE queue_to_managers(_, _)
queue_to_managers(manager_queue, managers) ==
    IF ~try_pop(manager_queue).ok THEN managers
    ELSE LET manager == try_pop(manager_queue).value
         IN  queue_to_managers(
                 try_pop(manager_queue).queue,
                 [managers EXCEPT
                     ![manager.first] = multimap_insert(@, manager.second)])

\* std::erase_if(managers[manager], ...): the entries of the handler object go
erase_handler(handlers, handler) == SelectSeq(handlers, LAMBDA x : x.instance # handler)

\* while (events.try_pop(event)): each event is executed by the range of its
\* type in managers[manager]
RECURSIVE pop_events(_, _, _)
pop_events(events, handlers, manager) ==
    IF ~try_pop(events).ok THEN [valid_pops |-> 0, execs |-> <<>>]
    ELSE LET event == try_pop(events).value
             range == equal_range(handlers, event.type)
             rest == pop_events(try_pop(events).queue, handlers, manager)
         IN  [valid_pops |-> rest.valid_pops + 1,
              execs |-> [i \in 1..Len(range) |->
                            [manager |-> manager, handler |-> range[i].ptr,
                             event |-> event.addr]] \o rest.execs]

\* subscribe(manager, handler, mem_fun)
MultiEventManager_subscribe(manager, handler, E) ==
    /\ keyed.allocated < KeyedHandlers
    /\ keyed' = [keyed EXCEPT
                    !.allocated = @ + 1,
                    !.manager_queue =
                        push(@, [first |-> manager,
                                 second |-> MemberFunctionHandler(
                                                keyed.allocated + 1, handler, E,
                                                Len(keyed.submitted))])]
    /\ UNCHANGED <<pipeline, bus>>

\* unsubscribe(manager, handler)
MultiEventManager_unsubscribe(manager, handler) ==
    /\ LET inserted == queue_to_managers(keyed.manager_queue, keyed.managers)
       IN  keyed' = [keyed EXCEPT
                        !.manager_queue = <<>>,
                        !.managers = [inserted EXCEPT
                                         ![manager] = erase_handler(@, handler)]]
    /\ UNCHANGED <<pipeline, bus>>

\* submit(event)
MultiEventManager_submit(E) ==
    /\ Len(keyed.submitted) < KeyedEvents
    /\ LET event == [addr |-> Len(keyed.submitted) + 1, type |-> E]
       IN  keyed' = [keyed EXCEPT !.events = push(@, event),
                                  !.submitted = Append(@, event)]
    /\ UNCHANGED <<pipeline, bus>>

\* process_events(manager)
MultiEventManager_process_events(manager) ==
    /\ Len(keyed.returns) < KeyedCalls
    /\ LET popped == pop_events(keyed.events, keyed.managers[manager], manager)
       IN  keyed' = [keyed EXCEPT
                        !.events = <<>>,
                        !.execs = @ \o popped.execs,
                        !.returns = Append(@, [manager |-> manager,
                                               valid_pops |-> popped.valid_pops])]
    /\ UNCHANGED <<pipeline, bus>>

KeyedNext ==
    \/ \E manager \in DraftKeys, handler \in DraftInstances, E \in DraftTypes :
          MultiEventManager_subscribe(manager, handler, E)
    \/ \E manager \in DraftKeys, handler \in DraftInstances :
          MultiEventManager_unsubscribe(manager, handler)
    \/ \E E \in DraftTypes : MultiEventManager_submit(E)
    \/ \E manager \in DraftKeys : MultiEventManager_process_events(manager)

SpecKeyed == Init /\ [][KeyedNext]_vars

(* ------------------------- reading the history ------------------------ *)
\* the sequence number an event was stamped with (the model names events by it)
seq_of(event) == event.addr

events_of(records) == [i \in 1..Len(records) |-> records[i].event]

\* the records process_events(p) appends in the step at hand
new_records(p) == SubSeq(log'[p], Len(log[p]) + 1, Len(log'[p]))

\* the events handler entry x of processor p was invoked with, in order
seen_by(p, x) == events_of(SelectSeq(log[p], LAMBDA r : x \in Range(r.invoked)))

\* how often event e stands in a sequence of events
occurrences(events, e) == Cardinality({i \in 1..Len(events) : events[i] = e})

batched_events == Flatten([b \in 1..Len(batches) |-> batches[b].events])

queued_events == firsts(Flatten(event_queue))

\* every event stamped so far whose submit has returned, by sequence number
returned_addrs ==
    {a \in 0..(event_count - 1) : \A t \in Threads :
        inflight[t] = NoSubmit \/ seq_of(inflight[t].pair.first) # a}

strictly_increasing(events) ==
    \A i, j \in 1..Len(events) : i < j => seq_of(events[i]) < seq_of(events[j])

\* what a FIFO holds, oldest batch first, each batch cut to its size
fifo_events(processor) ==
    Flatten([i \in 1..Len(processor.events_queue) |->
                SubSeq(batches[processor.events_queue[i]].events, 1,
                       processor.events_size_queue[i])])

(* ------------------------------- claims ------------------------------- *)
\* C1: the events a processor's handlers observe, over all the batches it
\* dispatches, are in strictly increasing order of the sequence number stamped
\* at submit.
C1_DispatchStrictlyIncreasing ==
    \A p \in 1..Len(log) : strictly_increasing(events_of(log[p]))

\* submission order of the events of type E, complete once all are in batches
expected(E) ==
    SelectSeq([a \in 1..event_count |->
                  CHOOSE e \in Range(batched_events) : seq_of(e) = a - 1],
              LAMBDA e : e.id = E)

CycleQuiescent ==
    /\ mv = -1
    /\ inflight[1] = NoSubmit
    /\ \A p \in ProcIds : event_queue[p] = <<>>
    /\ 1 \in ProcIds
    /\ processors[1].events_queue = <<>>

\* C2: one thread submits e1..en through one processor id and the caller runs
\* cycles of one move_to_processors and one process_events on that processor:
\* the handler subscribed to their type is invoked with e1..en in submission
\* order, each exactly once (never out of order or twice on the way, and with
\* all of them once the queue and the FIFO are empty).
C2_CycleSubmissionOrder ==
    1 \in ProcIds =>
        \A x \in Range(table_entries(processors[1].handlers)) :
            /\ strictly_increasing(seen_by(1, x))
            /\ \A i \in 1..Len(seen_by(1, x)) : seen_by(1, x)[i].id = entries[x].id
            /\ CycleQuiescent /\ event_count > 0 /\ Len(batched_events) = event_count
                   => seen_by(1, x) = expected(entries[x].id)

\* C2 witness: three events went through two or more non-empty batches and a
\* handler has seen all three.
C2_Witness ==
    /\ CycleQuiescent
    /\ Cardinality({b \in 1..Len(batches) : batches[b].events # <<>>}) >= 2
    /\ \E x \in 1..Len(entries) : Len(seen_by(1, x)) = 3

\* C3: with two or more batches in the FIFO, process_events dispatches the
\* batches oldest first and the events of each batch exactly once in batch
\* order.
C3_OldestFirst ==
    [][\A p \in ProcIds :
          (process_events(p) /\ ~crashed' /\ Len(processors[p].events_queue) >= 2)
              => events_of(new_records(p)) = fifo_events(processors[p])]_vars

\* C4: once the FIFO of processor p is empty, every event of every batch
\* delivered to p has been dispatched by p exactly once, to every handler of its
\* slot exactly once.
C4_ExactlyOnce ==
    \A p \in ProcIds :
        (Running /\ processors[p].events_queue = <<>>) =>
            \A i \in 1..Len(delivered[p]) :
                \A e \in Range(batches[delivered[p][i]].events) :
                    /\ occurrences(events_of(log[p]), e) = 1
                    /\ \A k \in 1..Len(log[p]) :
                          log[p][k].event = e =>
                              \A x \in Range(log[p][k].invoked) :
                                  Cardinality({j \in 1..Len(log[p][k].invoked) :
                                                  log[p][k].invoked[j] = x}) = 1

\* C5: every event is destroyed at most once, and no handler is invoked with an
\* event that has already been destroyed.
C5_NoDoubleFreeNoUseAfterFree ==
    /\ \A a \in 1..Len(deleted) : deleted[a] <= 1
    /\ \A p \in 1..Len(log) : \A k \in 1..Len(log[p]) : log[p][k].live

\* C5 witness: after teardown, an event that two processors dispatched is
\* destroyed and an event that never left the intake queue is not.
C5_Witness ==
    /\ ~alive
    /\ Len(log) = 2
    /\ \E e \in Range(events_of(log[1])) :
          e \in Range(events_of(log[2])) /\ deleted[seq_of(e) + 1] = 1
    /\ \E a \in 1..Len(deleted) : deleted[a] = 0

\* C6: an event of a batch delivered to P processors is not destroyed until each
\* of the P processors has dispatched it.
C6_DestroyedOnlyAfterDispatch ==
    alive =>
        \A b \in 1..Len(batches) : \A e \in Range(batches[b].events) :
            deleted[seq_of(e) + 1] > 0 =>
                \A p \in ProcIds :
                    b \in Range(delivered[p]) => e \in Range(events_of(log[p]))

\* C7: every event whose submit has returned is either still in the intake
\* queue or in exactly one SharedBatch, never both and never twice; an event
\* whose submit has not returned is in neither; and the events not yet counted
\* in subtracted are exactly the queued ones and the ones being submitted.
C7_NothingLostNothingDuplicated ==
    /\ \A a \in 0..(event_count - 1) :
          LET q == Cardinality({i \in 1..Len(queued_events) :
                                   seq_of(queued_events[i]) = a})
              b == Cardinality({i \in 1..Len(batched_events) :
                                   seq_of(batched_events[i]) = a})
          IN  IF a \in returned_addrs THEN q + b = 1 ELSE q + b = 0
    \* the next target covers what the queue holds: the shortfall is taken later
    /\ event_count - subtracted
           = Len(queued_events) + Cardinality({t \in Threads : inflight[t] # NoSubmit})

\* C7 witness: a move obtained fewer events than its target (event 1 alone,
\* while event 0 was stamped and not yet enqueued) and a later move took the
\* shortfall.
C7_Witness ==
    /\ Len(batches) = 2
    /\ batches[1].events # <<>> /\ seq_of(batches[1].events[1]) = 1
    /\ batches[2].events # <<>> /\ seq_of(batches[2].events[1]) = 0

bound_to(handlers, handler) ==
    {x \in Range(table_entries(handlers)) : entries[x].instance = handler}

\* C8: after unsubscribe(p, H) returns, the handler table of p holds no entry
\* bound to H in any slot.
C8_UnsubscribeRemoves ==
    [][\A p \in ProcIds, h \in HandlerObjs :
          (unsubscribe(p, h) /\ ~crashed') => bound_to(processors'[p].handlers, h) = {}]_vars

others(slot, handler) == SelectSeq(slot, LAMBDA x : entries[x].instance # handler)

\* C9: unsubscribe(p, H) leaves every entry not bound to H in place and in the
\* same order, on p and on every other processor, and leaves every FIFO
\* unchanged; and every entry that no unsubscribe has deleted is invoked for
\* each event of its slot dispatched afterwards.
C9_UnsubscribeFrame ==
    [][/\ \A p \in ProcIds, h \in HandlerObjs :
            unsubscribe(p, h) =>
                /\ Len(processors') = Len(processors)
                /\ \A q \in ProcIds :
                      /\ processors'[q].events_queue = processors[q].events_queue
                      /\ processors'[q].events_size_queue = processors[q].events_size_queue
                      /\ \A E \in EventIds :
                            IF q = p
                            THEN others(processors'[q].handlers[E], h)
                                     = others(processors[q].handlers[E], h)
                            ELSE processors'[q].handlers[E] = processors[q].handlers[E]
       /\ \A p \in ProcIds :
            process_events(p) =>
                \A k \in 1..Len(new_records(p)) :
                    LET r == new_records(p)[k]
                    IN  \A y \in Range(processors[p].handlers[r.event.id]) :
                            entry_deleted[y] = 0 => y \in Range(r.invoked)]_vars

C11_NoPendingNoOp ==
    [][(move_to_processors /\ event_count = subtracted /\ queued_events = <<>>)
          => /\ batches' = batches
             /\ processors' = processors
             /\ subtracted' = subtracted]_vars

stamped_pairs ==
    Flatten(event_queue)
        \o SelectSeq([t \in Threads |-> inflight[t].pair], LAMBDA pr : pr # NoPair)

\* the sequence numbers handed out so far (a batch keeps the events only)
handed_out ==
    {stamped_pairs[i].second : i \in 1..Len(stamped_pairs)}
        \cup {seq_of(batched_events[i]) : i \in 1..Len(batched_events)}

distinct_numbers ==
    /\ \A i, j \in 1..Len(stamped_pairs) :
          i # j => stamped_pairs[i].second # stamped_pairs[j].second
    /\ \A i \in 1..Len(stamped_pairs) : \A j \in 1..Len(batched_events) :
          stamped_pairs[i].second # seq_of(batched_events[j])
    /\ handed_out = 0..(event_count - 1)

\* C13: under any interleaving of submit calls every event gets a sequence
\* number of its own, the numbers handed out so far are exactly
\* 0..event_count-1, and event_count never decreases.
C13_DistinctSequenceNumbers ==
    [][distinct_numbers' /\ event_count' >= event_count]_vars

\* C13 witness: two threads are inside submit at once, between fetch_add and
\* enqueue, with different processor ids and with the numbers 0 and 1.
C13_Witness ==
    \E t, u \in Threads :
        /\ inflight[t] # NoSubmit /\ inflight[u] # NoSubmit
        /\ inflight[t].processor_id # inflight[u].processor_id
        /\ inflight[t].pair.second = 0 /\ inflight[u].pair.second = 1

\* C14: while a get_processor owns the mutex with its push_back still to come,
\* no thread is inside submit (between taking its sequence number and the
\* enqueue through the processor's token) and no process_events runs.
C14_NoIndexingWhileAppending ==
    [][(lock.unique # 0 /\ ~pc[lock.unique].done) =>
          /\ \A t \in Threads : inflight[t] = NoSubmit
          /\ ~ \E p \in ProcIds : process_events(p)]_vars

\* C15: a thread inside subscribe or unsubscribe is a shared owner of the mutex
\* from its first step to its return, a thread inside get_processor is the
\* only owner, and the two never overlap.
C15_SharedWhileSubscribing ==
    /\ \A t \in Threads :
          pc[t].op \in {"subscribe", "unsubscribe"} =>
              t \in lock.shared /\ lock.unique = 0
    /\ \A t \in Threads :
          pc[t].op = "get_processor" => lock.unique = t /\ lock.shared = {}
    /\ lock.unique # 0 => pc[lock.unique].op = "get_processor"

\* C15 witness: a subscribe and an unsubscribe own the mutex at the same time,
\* after a get_processor has owned it alone.
C15_Witness ==
    /\ returned >= 0
    /\ \E t, u \in Threads :
          /\ pc[t].op = "subscribe" /\ pc[u].op = "unsubscribe"
          /\ {t, u} \subseteq lock.shared

\* C16: get_processor returns the number of processors there were before the
\* call, and every processor that existed keeps its index, its handler table
\* and its pending batches; no handler entry and no batch loses an owner.
C16_AppendOnly ==
    [][Len(processors') # Len(processors) =>
          /\ returned' = Len(processors)
          /\ Len(processors') = Len(processors) + 1
          /\ \A q \in ProcIds : processors'[q] = processors[q]
          /\ entry_deleted' = entry_deleted
          /\ batches' = batches
          /\ deleted' = deleted]_vars

\* C16 witness: the second get_processor returned 1 while processor 1 held a
\* handler entry and a batch that was handed out before processor 2 existed
\* and is still pending.
C16_Witness ==
    /\ returned = 1
    /\ Len(processors) = 2
    /\ table_entries(processors[1].handlers) # <<>>
    /\ processors[1].events_queue # <<>>
    /\ delivered[2] = <<>>

\* the place a pair takes when the pairs are sorted by ascending sequence number
rank(input, i) ==
    Cardinality({j \in 1..Len(input) : input[j].second < input[i].second}) + 1

\* C17: for an input of pairs with distinct sequence numbers, in any order,
\* multithreaded_radix returns the events in the order of their ascending
\* sequence numbers, every event of the input exactly once.
C17_SortsBySequenceNumber ==
    sorter.called =>
        /\ Len(sorter.output) = Len(sorter.input)
        /\ \A i \in 1..Len(sorter.input) :
              sorter.output[rank(sorter.input, i)] = sorter.input[i].first

\* C17 witness: the sort was called on SortLen pairs that were out of order,
\* went to more than one bucket, and had two pairs out of order in the same
\* bucket whose radix takes more than one pass.
C17_Witness ==
    /\ sorter.called
    /\ Len(sorter.input) = SortLen
    /\ \E i, j, k \in 1..Len(sorter.input) :
          LET in == sorter.input
              m == max_val(in)
          IN  /\ i < j
              /\ in[i].second > in[j].second
              /\ in[j].second >= N
              /\ bucket_index(in[i].second, m) = bucket_index(in[j].second, m)
              /\ bucket_index(in[k].second, m) # bucket_index(in[i].second, m)

\* no processor has batch b in its FIFO any more
run_past(b) == \A p \in ProcIds : b \notin Range(processors[p].events_queue)

destroyed(events) == \A i \in 1..Len(events) : deleted[events[i].addr + 1] = 1

consumed_batches_freed ==
    \A b \in 1..Len(batches) :
        run_past(b) => batches[b].use_count = 0 /\ destroyed(batches[b].events)

\* the scenario of main: one processor, handlers subscribed and none taken
\* away, every submitted event in the one batch one move_to_processors made,
\* no process_events yet
single_processor_scenario ==
    /\ Len(processors) = 1
    /\ Len(batches) = 1
    /\ event_count > 0
    /\ Len(batches[1].events) = event_count
    /\ processors[1].events_queue = <<1>>
    /\ log[1] = <<>>
    /\ \A x \in 1..Len(entries) : entry_deleted[x] = 0

\* C18: once every processor that received a batch has run process_events past
\* it, its use count is zero and each of its events has been destroyed; in the
\* scenario of one processor (subscribe, submit N events, one
\* move_to_processors, one process_events) the handlers of each event's type
\* have been invoked once for each of the N events and no event stays allocated.
C18_ConsumedBatchesFreed ==
    [][/\ consumed_batches_freed'
       /\ (single_processor_scenario /\ process_events(1)) =>
              /\ ~crashed'
              /\ events_of(new_records(1)) = batches[1].events
              /\ \A k \in 1..Len(new_records(1)) :
                    new_records(1)[k].invoked
                        = processors[1].handlers[new_records(1)[k].event.id]
              /\ \A a \in 1..event_count : deleted'[a] = 1]_vars

\* C18 witness: the scenario has run with two events; the one handler was
\* invoked for both, the FIFO is empty, the batch has no owner left and both
\* events are destroyed.
C18_Witness ==
    /\ Len(processors) = 1 /\ Len(batches) = 1
    /\ event_count = 2 /\ subtracted = 2
    /\ processors[1].events_queue = <<>>
    /\ Len(log[1]) = 2
    /\ \A k \in 1..2 : Len(log[1][k].invoked) = 1
    /\ batches[1].use_count = 0
    /\ destroyed(batches[1].events)
    /\ alive /\ ~crashed

\* every line of the translation unit has been compiled
registered == registry.at > Len(registry.lines)

\* C19: with MAX_EVENT_INIT after every EVENT_GEN, the registered types have
\* the ids 0, 1, 2, ... in the order of their EVENT_GEN lines (so no two are
\* equal), max_event_types is the number of registered types, and every id is
\* at least 0 and below the size of a processor's handler table.  For the two
\* types of main.cpp that size is the max_event_types of the pipeline above.
C19_DenseTypeIds ==
    /\ Last(registry.lines) = "MAX_EVENT_INIT" =>
          /\ \A k \in 1..Len(registry.ids) :
                /\ registry.ids[k].id = k - 1
                /\ registry.ids[k].type = registry.lines[k]
          /\ registered =>
                /\ Len(registry.ids) = Len(registry.lines) - 1
                /\ registry.max = Len(registry.ids)
                /\ \A k \in 1..Len(registry.ids) :
                      0 <= registry.ids[k].id /\ registry.ids[k].id < handlers_size
    /\ (registered /\ registry.lines = <<"Event1", "Event2", "MAX_EVENT_INIT">>) =>
          /\ registry.max = max_event_types
          /\ DOMAIN EventProcessor.handlers = 0..(handlers_size - 1)

\* C19 witness: a translation unit with three EVENT_GEN lines followed by
\* MAX_EVENT_INIT has been compiled: three ids and max_event_types = 3.
C19_Witness ==
    /\ registered
    /\ Last(registry.lines) = "MAX_EVENT_INIT"
    /\ Len(registry.ids) = MaxTypes
    /\ registry.max = MaxTypes

\* C20: a process_events that returns leaves the processor's FIFO empty and
\* has dispatched every event of every batch the FIFO held when it was called.
C20_DispatchesWholeFifo ==
    [][\A p \in ProcIds :
          (process_events(p) /\ ~crashed') =>
              /\ processors'[p].events_queue = <<>>
              /\ processors'[p].events_size_queue = <<>>
              /\ Range(fifo_events(processors[p]))
                    \subseteq Range(events_of(new_records(p)))]_vars

\* the batches q was handed are the last ones p was handed
suffix_of(q, p) ==
    /\ Len(q) <= Len(p)
    /\ SubSeq(p, Len(p) - Len(q) + 1, Len(p)) = q

\* C21: a move_to_processors appends the batch it made, with the number of
\* events it dequeued, to the FIFO of every processor there is; so of two
\* processors the younger has received the batches the older has received
\* since the younger exists, in the same order.
C21_SameBatchToEveryProcessor ==
    [][/\ Len(batches') # Len(batches) =>
             \A p \in ProcIds :
                 /\ processors'[p].events_queue
                       = Append(processors[p].events_queue, Len(batches'))
                 /\ processors'[p].events_size_queue
                       = Append(processors[p].events_size_queue,
                                Len(batches'[Len(batches')].events))
       /\ \A p, q \in 1..Len(delivered') :
             p < q => suffix_of(delivered'[q], delivered'[p])]_vars

\* C21 witness: two processors hold the same non-empty batch with the same
\* size in their FIFOs; the older one was handed a batch before the younger
\* one existed.
C21_Witness ==
    /\ Len(processors) = 2
    /\ delivered[1] = <<1, 2>> /\ delivered[2] = <<2>>
    /\ batches[2].events # <<>>
    /\ Last(processors[1].events_queue) = 2 /\ Last(processors[2].events_queue) = 2
    /\ Last(processors[1].events_size_queue) = Len(batches[2].events)
    /\ Last(processors[2].events_size_queue) = Len(batches[2].events)

\* C22: for an input whose largest sequence number is at least 1, after the
\* partition every pair stands in one bucket and every sequence number in a
\* bucket is smaller than every sequence number in any later bucket.
C22_BucketsAscend ==
    (sorter.called /\ max_val(sorter.input) >= 1) =>
        /\ \A i \in 1..Len(sorter.input) :
              \E k \in DOMAIN sorter.buckets :
                  sorter.input[i] \in Range(sorter.buckets[k])
        /\ \A k, l \in DOMAIN sorter.buckets :
              k < l => \A x \in Range(sorter.buckets[k]), y \in Range(sorter.buckets[l]) :
                           x.second < y.second

\* C22 witness: a partition with two pairs in one bucket and two in a later one
C22_Witness ==
    /\ sorter.called
    /\ \E k, l \in DOMAIN sorter.buckets :
          k < l /\ Len(sorter.buckets[k]) = 2 /\ Len(sorter.buckets[l]) = 2

\* C23: when the largest sequence number of the input is 0, the empty input
\* included, multithreaded_radix makes no bucket and starts no thread and its
\* output is the input's events in the order they were dequeued.
C23_PassThroughAtZero ==
    (sorter.called /\ max_val(sorter.input) = 0) =>
        /\ sorter.output = firsts(sorter.input)
        /\ sorter.threads = 0
        /\ sorter.buckets = <<>>

\* C23 witness: the sort was called on the one pair with sequence number 0
C23_Witness ==
    /\ sorter.called
    /\ Len(sorter.input) = 1
    /\ sorter.input[1].second = 0
    /\ sorter.output = <<sorter.input[1].first>>

\* C24: for an input that is sorted, multithreaded_radix partitions into
\* exactly 2^base buckets, starts exactly one thread for each, and has joined
\* every thread when it reads the buckets.
C24_TwoToTheBaseBuckets ==
    (sorter.called /\ max_val(sorter.input) >= 1) =>
        /\ Cardinality(DOMAIN sorter.buckets) = Pow(2, base)
        /\ sorter.threads = Pow(2, base)
        /\ sorter.joined = sorter.threads

\* C30: for an input whose largest sequence number is at least 1, the shift
\* amount bit_scan_rv(max) + 1 - base is not negative and every pair's
\* bucket index is one of 0..(number of buckets - 1).
C30_ShiftAmountNotNegative ==
    (sorter.called /\ max_val(sorter.input) >= 1) =>
        /\ shift_amount(max_val(sorter.input)) >= 0
        /\ \A i \in 1..Len(sorter.input) :
              bucket_index(sorter.input[i].second, max_val(sorter.input))
                  \in 0..(Cardinality(DOMAIN sorter.buckets) - 1)

\* C25: a move_to_processors dequeues at most event_count - subtracted events,
\* with the event_count it read when it started; it adds the number it
\* dequeued to subtracted and pushes that number as the size of the batch.
\* After every step subtracted is at most event_count and equals the number
\* of events placed in batches so far.
C25_SubtractedCountsBatchedEvents ==
    [][/\ Len(batches') # Len(batches) =>
             LET events == batches'[Len(batches')].events
             IN  /\ Len(events) <= mv - subtracted
                 /\ subtracted' = subtracted + Len(events)
                 /\ Len(queued_events') = Len(queued_events) - Len(events)
                 /\ \A p \in ProcIds :
                       Last(processors'[p].events_size_queue) = Len(events)
       /\ subtracted' <= event_count'
       /\ subtracted' = Len(batched_events')]_vars

\* C25 witness: a move whose target was 2 dequeued one event, because the
\* other was stamped and not yet enqueued; subtracted is 1 and the batch's
\* size in the FIFO is 1.
C25_Witness ==
    /\ event_count = 2 /\ subtracted = 1
    /\ Len(batches) = 1 /\ Len(batches[1].events) = 1
    /\ seq_of(batches[1].events[1]) = 1
    /\ mv = -1
    /\ \E p \in ProcIds : processors[p].events_size_queue = <<1>>

\* C26: the radix of event.h returns its input's pairs, each once, in
\* ascending order of their sequence numbers, whatever the number of decimal
\* digits of the largest one.
C26_Radix10Sorts ==
    sorter.radix_called =>
        /\ Len(sorter.copy_to) = Len(sorter.input)
        /\ \A i \in 1..Len(sorter.input) :
              sorter.copy_to[rank(sorter.input, i)] = sorter.input[i]

\* C27: no handler entry is destroyed twice; while the manager lives no table
\* holds an entry that has been destroyed; once the manager is destroyed every
\* entry has been destroyed exactly once.
C27_EntryDestroyedOnce ==
    /\ \A x \in 1..Len(entries) : entry_deleted[x] <= 1
    /\ alive => \A p \in ProcIds :
                   \A x \in Range(table_entries(processors[p].handlers)) :
                       entry_deleted[x] = 0
    /\ (~alive /\ ~crashed) => \A x \in 1..Len(entries) : entry_deleted[x] = 1

\* C28: with move_to_processors and process_events(p) running at the same
\* time, the size process_events dispatches a batch with is that batch's own,
\* and the batch it pops is the batch it dispatched.
C28_BatchWithItsOwnCount ==
    /\ fifo.run.at \in {"dispatch", "pop", "pop_size"} =>
          fifo.run.events_size = Len(batches[fifo.run.events].events)
    /\ fifo.run.at = "pop_size" => fifo.run.popped = fifo.run.events

\* C29: a processor receives the batches of the move_to_processors calls made
\* after its get_processor returned, and no others: it starts with an empty
\* FIFO whatever batches exist, every later move hands it its batch, and its
\* FIFO never holds a batch it was not handed.  A batch made while there is
\* no processor is handed to nobody and has no owner left, while its events
\* are gone from the intake queue and counted in subtracted.
C29_BatchesSinceGetProcessor ==
    [][/\ Len(processors') > Len(processors) =>
             /\ Last(processors').events_queue = <<>>
             /\ Last(processors').events_size_queue = <<>>
             /\ Last(delivered') = <<>>
             /\ \A p \in ProcIds : delivered'[p] = delivered[p]
       /\ Len(batches') > Len(batches) =>
             /\ \A p \in ProcIds : delivered'[p] = Append(delivered[p], Len(batches'))
             /\ ProcIds = {} =>
                   /\ batches'[Len(batches')].use_count = 0
                   /\ subtracted' = subtracted + Len(batches'[Len(batches')].events)
                   /\ Len(queued_events')
                         = Len(queued_events) - Len(batches'[Len(batches')].events)
       /\ (Len(processors') = Len(processors) /\ Len(batches') = Len(batches)) =>
             delivered' = delivered
       /\ \A p \in 1..Len(processors') :
             Range(processors'[p].events_queue) \subseteq Range(delivered'[p])]_vars

\* C29 witness: batch 1 was made while no processor existed and has no owner;
\* processor 1 came next and was handed batch 2 only; processor 2 came after
\* batch 2 and was handed nothing, while batch 2 still waits in processor 1.
C29_Witness ==
    /\ Len(processors) = 2 /\ Len(batches) = 2
    /\ batches[1].use_count = 0
    /\ delivered[1] = <<2>> /\ delivered[2] = <<>>
    /\ batches[2].events # <<>>
    /\ processors[1].events_queue = <<2>> /\ processors[2].events_queue = <<>>

\* C31: the handlers invoked for an event are those bound in the processor's
\* table when process_events dispatches it: every entry subscribed by then and
\* not unsubscribed by then, whenever the event was submitted or moved, and
\* no entry whose handler was unsubscribed before the dispatch.
C31_TableAtDispatch ==
    [][\A p \in ProcIds :
          process_events(p) =>
              \A k \in 1..Len(new_records(p)) :
                  LET r == new_records(p)[k]
                      slot == processors[p].handlers[r.event.id]
                  IN  r.invoked = SelectSeq(slot, LAMBDA x : entry_deleted[x] = 0)]_vars

\* how many times the bus executed handler entry x with event e
bus_execs(x, e) ==
    Cardinality({k \in 1..Len(bus.execs) :
                    bus.execs[k] = [handler |-> x.ptr, event |-> e.addr]})

\* every handler entry subscribed on the bus (the draft's main unsubscribes none)
bus_subscribed == Range(bus.subscribed)

RECURSIVE sum_valid_pops(_)
sum_valid_pops(returns) ==
    IF returns = <<>> THEN 0
    ELSE Head(returns).valid_pops + sum_valid_pops(Tail(returns))

\* the producer has finished and a process_events entered after that has returned
bus_drained ==
    /\ ~bus.late
    /\ \E k \in 1..Len(bus.returns) : bus.returns[k].finished

keyed_subscribed(manager) == Range(keyed.managers[manager])

\* C33: in the keyed draft each submitted event goes to every handler group:
\* when process_events(key) returns, every event submitted after a handler of
\* its type was subscribed under that key, and which that key's multimap holds,
\* has been executed by that handler, whichever group called process_events
\* first.
C33_EveryGroup ==
    [][\A manager \in DraftKeys :
          MultiEventManager_process_events(manager) =>
              \A x \in keyed_subscribed(manager) :
                  \A k \in 1..Len(keyed.submitted) :
                      (x.since < k /\ x.tinfo = keyed.submitted[k].type) =>
                          \E r \in Range(keyed'.execs) :
                              /\ r.manager = manager
                              /\ r.handler = x.ptr
                              /\ r.event = keyed.submitted[k].addr]_vars

\* how many inputs of the count_sort call have digit d
true_count(d) ==
    Cardinality({i \in 1..Len(sorter.input) : digit10(sorter.input[i], sorter.exp) = d})

\* how many have a digit of at most d
true_prefix(d) ==
    Cardinality({i \in 1..Len(sorter.input) : digit10(sorter.input[i], sorter.exp) <= d})

\* C34: event.h's count_sort counts correctly for any input length n: after its
\* first loop each counter holds the number of elements of its digit, after its
\* second the number of elements of that digit or a smaller one, and its third
\* loop writes every element to an index of its own in 0..n-1, also when more
\* than 127 elements are sorted.
C34_CountersHold ==
    sorter.outcome # "none" =>
        /\ \A d \in 0..9 : sorter.count[d] = true_count(d)
        /\ \A d \in 0..9 : sorter.summed[d] = true_prefix(d)
        /\ Len(sorter.written) = Len(sorter.input)
        /\ \A k \in 1..Len(sorter.written) :
              sorter.written[k] \in 0..(Len(sorter.input) - 1)
        /\ \A j, k \in 1..Len(sorter.written) :
              sorter.written[j] = sorter.written[k] => j = k

====
